---------------------------- MODULE Spec2Model ----------------------------
(***************************************************************************)
(* Request-body rewrite middleware (traefik-plugin-requestbodyrewrite).    *)
(*                                                                         *)
(* The middleware is the Go package of plugin.go: New compiles the         *)
(* configured rewrites and builds the instance, ServeHTTP reads the        *)
(* request body, runs every compiled rewrite over it, writes the body and  *)
(* its length back and calls the next handler.  The configuration is the   *)
(* one README.md documents (rewrites with per-rule methods, contentTypes   *)
(* and pathRegex); plugin.go's Config/Rewrite types decode it.  The        *)
(* per-rule filters are evaluated as the README's listing evaluates them.  *)
(*                                                                         *)
(* Text is a sequence of one-character strings.  Regular expressions are   *)
(* restricted to literal patterns plus the unbalanced "(" that does not    *)
(* compile; replacements are literal (no $ references).                    *)
(***************************************************************************)
EXTENDS Integers, Sequences, FiniteSets, TLC

VARIABLES
    config,     \* the configuration handed to New
    built,      \* whether New has returned
    handler,    \* New's first result: the *RequestBodyRewrite, or nil
    err,        \* New's second result: an error was returned
    host,       \* "sequential" or "concurrent": how the host calls ServeHTTP
    inv,        \* per ServeHTTP invocation: position, request, what next saw,
                \* and the record of what it did (applied, altered, together)
    bodyStr     \* the working body text of each invocation (a local of ServeHTTP)

vars == <<config, built, handler, err, host, inv, bodyStr>>

(***************************************************************************)
(* Bounds of the model.                                                    *)
(***************************************************************************)
MaxRules == 2

MaxBodyLen == 2

NumConcurrent == 2

(***************************************************************************)
(* Text helpers.                                                           *)
(***************************************************************************)
Lowers == <<"a","b","c","d","e","f","g","h","i","j","k","l","m",
            "n","o","p","q","r","s","t","u","v","w","x","y","z">>

Uppers == <<"A","B","C","D","E","F","G","H","I","J","K","L","M",
            "N","O","P","Q","R","S","T","U","V","W","X","Y","Z">>

UpperChar(c) ==
    IF \E k \in 1..26 : Lowers[k] = c
    THEN Uppers[CHOOSE k \in 1..26 : Lowers[k] = c]
    ELSE c

LowerChar(c) ==
    IF \E k \in 1..26 : Uppers[k] = c
    THEN Lowers[CHOOSE k \in 1..26 : Uppers[k] = c]
    ELSE c

\* strings.ToUpper
ToUpper(s) == [k \in 1..Len(s) |-> UpperChar(s[k])]

\* strings.ToLower
ToLower(s) == [k \in 1..Len(s) |-> LowerChar(s[k])]

IsSpace(c) == c \in {" ", "\t", "\n", "\r"}

RECURSIVE TrimLeft(_)
TrimLeft(s) ==
    IF s # <<>> /\ IsSpace(Head(s)) THEN TrimLeft(Tail(s)) ELSE s

RECURSIVE TrimRight(_)
TrimRight(s) ==
    IF s # <<>> /\ IsSpace(s[Len(s)])
    THEN TrimRight(SubSeq(s, 1, Len(s) - 1))
    ELSE s

\* strings.TrimSpace
TrimSpace(s) == TrimRight(TrimLeft(s))

\* strings.Split(s, ";")[0]: the text before the first ";", all of s without one
SplitFirst(s) ==
    IF \E k \in 1..Len(s) : s[k] = ";"
    THEN LET k == CHOOSE n \in 1..Len(s) :
                      s[n] = ";" /\ \A m \in 1..(n - 1) : s[m] # ";"
         IN  SubSeq(s, 1, k - 1)
    ELSE s

\* whether sub occurs at position k of s
MatchAt(s, sub, k) ==
    /\ k + Len(sub) - 1 <= Len(s)
    /\ \A n \in 1..Len(sub) : s[k + n - 1] = sub[n]

Digits == <<"0","1","2","3","4","5","6","7","8","9">>

\* strconv.Itoa, for n >= 0
RECURSIVE Itoa(_)
Itoa(n) ==
    IF n < 10 THEN <<Digits[n + 1]>>
    ELSE Itoa(n \div 10) \o <<Digits[(n % 10) + 1]>>

DigitValue(c) == (CHOOSE k \in 1..10 : Digits[k] = c) - 1

\* the number a decimal Content-Length header denotes; -1 when it is no number
RECURSIVE ParseLength(_)
ParseLength(s) ==
    IF s = <<>> \/ \E k \in 1..Len(s) : \A d \in 1..10 : Digits[d] # s[k]
    THEN -1
    ELSE IF Len(s) = 1 THEN DigitValue(s[1])
    ELSE 10 * ParseLength(SubSeq(s, 1, Len(s) - 1)) + DigitValue(s[Len(s)])

(***************************************************************************)
(* Regular expressions (literal subset).                                   *)
(***************************************************************************)
\* depth of open parentheses after reading s from depth d; -1 once a ")" has
\* no "(" to close
RECURSIVE ParenDepth(_, _)
ParenDepth(s, d) ==
    IF d < 0 \/ s = <<>> THEN d
    ELSE IF Head(s) = "(" THEN ParenDepth(Tail(s), d + 1)
    ELSE IF Head(s) = ")" THEN ParenDepth(Tail(s), d - 1)
    ELSE ParenDepth(Tail(s), d)

\* regexp.Compile returns a nil error
Compiles(pattern) == ParenDepth(pattern, 0) = 0

\* (*Regexp).MatchString: the pattern matches somewhere in s
MatchString(pattern, s) ==
    \E k \in 1..(Len(s) + 1) : MatchAt(s, pattern, k)

\* (*Regexp).ReplaceAllString: every leftmost non-overlapping match of the
\* pattern is replaced; an empty match is followed by the next character
RECURSIVE ReplaceAllString(_, _, _)
ReplaceAllString(pattern, src, repl) ==
    IF MatchAt(src, pattern, 1)
    THEN IF pattern # <<>>
         THEN repl \o ReplaceAllString(pattern,
                          SubSeq(src, Len(pattern) + 1, Len(src)), repl)
         ELSE IF src = <<>> THEN repl
         ELSE repl \o <<Head(src)>> \o ReplaceAllString(pattern, Tail(src), repl)
    ELSE IF src = <<>> THEN <<>>
    ELSE <<Head(src)>> \o ReplaceAllString(pattern, Tail(src), repl)

(***************************************************************************)
(* Configuration: README.md's documented rewrites, decoded by plugin.go.   *)
(***************************************************************************)
Range(s) == {s[k] : k \in 1..Len(s)}

SeqsUpTo(S, n) == UNION {[1..k -> S] : k \in 0..n}

POST == <<"P","O","S","T">>

post == <<"p","o","s","t">>

GET == <<"G","E","T">>

\* one entry of the documented rewrites list
Rule(regex, replacement, methods, contentTypes, pathRegex) ==
    [regex |-> regex, replacement |-> replacement, methods |-> methods,
     contentTypes |-> contentTypes, pathRegex |-> pathRegex]

RuleChoices ==
    { Rule(<<"a">>, <<"b">>, <<>>, <<>>, <<>>),
      Rule(<<"b">>, <<"c">>, <<>>, <<>>, <<>>),
      Rule(<<"a">>, <<>>, <<post>>, <<>>, <<>>),
      Rule(<<"b">>, <<"b","b">>, <<>>, <<<<" ","a","/","J">>>>, <<>>),
      Rule(<<"a">>, <<"c">>, <<>>, <<>>, <<"/","x">>),
      Rule(<<"(">>, <<"b">>, <<>>, <<>>, <<>>),
      Rule(<<"a">>, <<"b">>, <<>>, <<>>, <<"(">>) }

\* the configurations New is called with: the rewrites and Config.Methods
Configs ==
    { [rewrites |-> rs, methods |-> ms] :
          rs \in SeqsUpTo(RuleChoices, MaxRules), ms \in {<<>>, <<post>>} }

\* type Rewrite: the fields of a rewrites entry that the struct decodes
Rewrite(r) == [Regex |-> r.regex, Replacement |-> r.replacement]

\* type Config, decoded from the configuration
Config(c) ==
    [Rewrites |-> [k \in 1..Len(c.rewrites) |-> Rewrite(c.rewrites[k])],
     Methods |-> c.methods]

\* type compiledRewrite
compiledRewrite(re, replacement) == [regex |-> re, replacement |-> replacement]

NilHandler == [nil |-> TRUE, rewrites |-> <<>>, methods |-> {}]

\* New's loop over config.Rewrites: the compiled rewrites, or the first
\* compile error
RECURSIVE CompileRewrites(_, _)
CompileRewrites(rs, rewrites) ==
    IF rs = <<>> THEN [err |-> FALSE, rewrites |-> rewrites]
    ELSE IF ~Compiles(Head(rs).Regex) THEN [err |-> TRUE, rewrites |-> <<>>]
    ELSE CompileRewrites(Tail(rs),
             Append(rewrites,
                    compiledRewrite(Head(rs).Regex, Head(rs).Replacement)))

\* New's method filter set
MethodsSet(ms) == {ToUpper(m) : m \in Range(ms)}

\* New(ctx, next, config, name): the handler and the error
New(c) ==
    LET compiled == CompileRewrites(Config(c).Rewrites, <<>>)
    IN  IF compiled.err
        THEN [handler |-> NilHandler, err |-> TRUE]
        ELSE [handler |-> [nil |-> FALSE,
                           rewrites |-> compiled.rewrites,
                           methods |-> MethodsSet(Config(c).Methods)],
              err |-> FALSE]

(***************************************************************************)
(* The per-rule filters, as README.md's listing normalises and evaluates   *)
(* them.                                                                   *)
(***************************************************************************)
\* the media type of a Content-Type value
media(ct) == ToLower(TrimSpace(SplitFirst(ct)))

\* a rule's methods set
methodsSet(rule) == {ToUpper(m) : m \in Range(rule.methods)}

\* a rule's content types set
ctSet(rule) == {media(ct) : ct \in Range(rule.contentTypes)}

MethodFilter(rule, req) ==
    methodsSet(rule) # {} => req.Method \in methodsSet(rule)

ContentTypeFilter(rule, req) ==
    ctSet(rule) # {} => media(req.ContentType) \in ctSet(rule)

PathFilter(rule, req) ==
    rule.pathRegex # <<>> => MatchString(rule.pathRegex, req.Path)

\* the rule's substitution is performed for the request
Applies(rule, req) ==
    MethodFilter(rule, req) /\ ContentTypeFilter(rule, req) /\ PathFilter(rule, req)

(***************************************************************************)
(* Requests.                                                               *)
(***************************************************************************)
\* an *http.Request as the host delivers it; Body is the stream (its bytes
\* and how many of them have been read), BodyNil says req.Body == nil
Request(method, ct, path, bodyNil, data) ==
    [Method |-> method, ContentType |-> ct, Path |-> path,
     BodyNil |-> bodyNil, Body |-> [data |-> data, pos |-> 0],
     ContentLength |-> Len(data),
     ContentLengthHeader |-> IF bodyNil THEN <<>> ELSE Itoa(Len(data))]

RequestMethods == {POST, post, GET}

RequestContentTypes == {<<>>, <<"A","/","j"," ",";","q">>, <<"t","/","p">>}

RequestPaths == {<<"/","x">>, <<"/","h">>}

Bodies == SeqsUpTo({"a", "b"}, MaxBodyLen)

Requests ==
    { Request(m, ct, p, FALSE, d) :
          m \in RequestMethods, ct \in RequestContentTypes,
          p \in RequestPaths, d \in Bodies }
    \cup
    { Request(m, ct, p, TRUE, <<>>) :
          m \in RequestMethods, ct \in RequestContentTypes, p \in RequestPaths }

NoRequest == Request(<<>>, <<>>, <<>>, TRUE, <<>>)

\* the invocations that run together, and what they are given, when the
\* host serves requests concurrently
ConcConfigs ==
    { [rewrites |-> <<Rule(<<"a">>, <<"b">>, <<>>, <<>>, <<>>),
                      Rule(<<"b">>, <<"c">>, <<>>, <<>>, <<>>)>>,
       methods |-> <<>>],
      [rewrites |-> <<Rule(<<"b">>, <<"b","b">>, <<>>, <<>>, <<>>),
                      Rule(<<"a">>, <<>>, <<>>, <<>>, <<>>)>>,
       methods |-> <<post>>] }

ConcRequests ==
    { Request(POST, <<>>, <<"/","x">>, FALSE, <<"a">>),
      Request(POST, <<>>, <<"/","x">>, FALSE, <<"b","a">>),
      Request(GET, <<>>, <<"/","h">>, FALSE, <<"a","b">>),
      Request(POST, <<>>, <<"/","x">>, TRUE, <<>>) }

\* the requests the host may deliver
Pool == IF host = "concurrent" THEN ConcRequests ELSE Requests

(***************************************************************************)
(* State.                                                                  *)
(***************************************************************************)
Idle ==
    [pc |-> "idle", req |-> NoRequest, orig |-> NoRequest, idx |-> 1,
     applied |-> {}, altered |-> {}, readErr |-> FALSE, ret |-> "none",
     forwards |-> 0, seen |-> NoRequest, wrote |-> 0, together |-> FALSE]

InitWith(cfgs, mode, ids) ==
    /\ config \in cfgs
    /\ built = FALSE
    /\ handler = NilHandler
    /\ err = FALSE
    /\ host = mode
    /\ inv = [i \in ids |-> Idle]
    /\ bodyStr = [i \in ids |-> <<>>]

Init == InitWith(Configs, "sequential", {1})

InitConc == InitWith(ConcConfigs, "concurrent", 1..NumConcurrent)

\* the host constructs the middleware once
Construct ==
    /\ ~built
    /\ built' = TRUE
    /\ handler' = New(config).handler
    /\ err' = New(config).err
    /\ UNCHANGED <<config, host, inv, bodyStr>>

(***************************************************************************)
(* ServeHTTP, one step per statement group.                                *)
(***************************************************************************)
\* p.next.ServeHTTP(w, req); return
CallNext(r, req, ret) ==
    [r EXCEPT !.pc = "done", !.req = req, !.seen = req,
              !.forwards = @ + 1, !.ret = ret]

\* a working text shared by all invocations, as a package-level variable is
BufShared(i) == 1

\* the slot of invocation i's bodyStr: a local, so each invocation's own
Buf(i) == i

\* the host calls ServeHTTP(w, req)
Receive(i) ==
    /\ built /\ ~err /\ ~handler.nil
    /\ inv[i].pc = "idle"
    /\ \E req \in Pool :
           inv' = [inv EXCEPT ![i] = [inv[i] EXCEPT !.pc = "method",
                                                    !.req = req, !.orig = req]]
    /\ UNCHANGED <<config, built, handler, err, host, bodyStr>>

\* the method check forwarding without returning
CheckMethodNoReturn(i) ==
    /\ inv[i].pc = "method"
    /\ IF handler.methods # {} /\ inv[i].req.Method \notin handler.methods
       THEN inv' = [inv EXCEPT ![i] =
                       [CallNext(inv[i], inv[i].req, "method")
                            EXCEPT !.pc = "nilcheck"]]
       ELSE inv' = [inv EXCEPT ![i].pc = "nilcheck"]
    /\ UNCHANGED <<config, built, handler, err, host, bodyStr>>

\* if len(p.methods) > 0 and the method is not in it: forward and return
CheckMethod(i) ==
    /\ inv[i].pc = "method"
    /\ IF handler.methods # {} /\ inv[i].req.Method \notin handler.methods
       THEN inv' = [inv EXCEPT ![i] = CallNext(inv[i], inv[i].req, "method")]
       ELSE inv' = [inv EXCEPT ![i].pc = "nilcheck"]
    /\ UNCHANGED <<config, built, handler, err, host, bodyStr>>

\* if req.Body == nil: forward and return
CheckNilBody(i) ==
    /\ inv[i].pc = "nilcheck"
    /\ IF inv[i].req.BodyNil
       THEN inv' = [inv EXCEPT ![i] = CallNext(inv[i], inv[i].req, "nil")]
       ELSE inv' = [inv EXCEPT ![i].pc = "read"]
    /\ UNCHANGED <<config, built, handler, err, host, bodyStr>>

\* transport.ReadBody(req) returns the bytes: bodyStr := string(bodyBytes)
ReadBodyOk(i) ==
    /\ inv[i].pc = "read"
    /\ inv' = [inv EXCEPT ![i] =
                  [inv[i] EXCEPT !.pc = "rewrite", !.idx = 1,
                                 !.req.Body.pos = Len(inv[i].req.Body.data)]]
    /\ bodyStr' = [bodyStr EXCEPT ![Buf(i)] = inv[i].req.Body.data]
    /\ UNCHANGED <<config, built, handler, err, host>>

\* the read error ignored: the bytes read so far go through the rewrites
ReadBodyErrIgnored(i) ==
    /\ inv[i].pc = "read"
    /\ \E k \in 0..Len(inv[i].req.Body.data) :
           /\ inv' = [inv EXCEPT ![i] =
                         [inv[i] EXCEPT !.pc = "rewrite", !.idx = 1,
                                        !.readErr = TRUE, !.req.Body.pos = k]]
           /\ bodyStr' = [bodyStr EXCEPT ![Buf(i)] =
                             SubSeq(inv[i].req.Body.data, 1, k)]
    /\ UNCHANGED <<config, built, handler, err, host>>

\* transport.ReadBody(req) returns an error, having read k bytes of the
\* stream: forward the request and return
ReadBodyErr(i) ==
    /\ inv[i].pc = "read"
    /\ \E k \in 0..Len(inv[i].req.Body.data) :
           inv' = [inv EXCEPT ![i] =
                      CallNext([inv[i] EXCEPT !.readErr = TRUE],
                               [inv[i].req EXCEPT !.Body.pos = k], "readerr")]
    /\ UNCHANGED <<config, built, handler, err, host, bodyStr>>

\* another invocation is inside its loop over p.rewrites
OthersInLoop(i) ==
    \E j \in DOMAIN inv : j # i /\ inv[j].pc = "rewrite" /\ inv[j].applied # {}

\* one iteration of the loop over p.rewrites
ApplyRewrite(i) ==
    /\ inv[i].pc = "rewrite"
    /\ inv[i].idx <= Len(handler.rewrites)
    /\ LET r == handler.rewrites[inv[i].idx]
           old == bodyStr[Buf(i)]
           new == ReplaceAllString(r.regex, old, r.replacement)
       IN  /\ bodyStr' = [bodyStr EXCEPT ![Buf(i)] = new]
           /\ inv' = [inv EXCEPT ![i] =
                         [inv[i] EXCEPT !.idx = @ + 1,
                                   !.applied = @ \cup {inv[i].idx},
                                   !.together = @ \/ OthersInLoop(i),
                                   !.altered = IF new # old
                                               THEN @ \cup {inv[i].idx}
                                               ELSE @]]
    /\ UNCHANGED <<config, built, handler, err, host>>

\* the body replaced and the header set, req.ContentLength left as it was
SetBodyStaleLength(req, newBody) ==
    [req EXCEPT !.Body = [data |-> newBody, pos |-> 0],
                !.ContentLengthHeader = Itoa(Len(newBody))]

\* req.Body, req.ContentLength and the Content-Length header for newBody
SetBody(req, newBody) ==
    [req EXCEPT !.Body = [data |-> newBody, pos |-> 0],
                !.ContentLength = Len(newBody),
                !.ContentLengthHeader = Itoa(Len(newBody))]

\* after the loop: replace the body, update the lengths, forward and return
ReplaceBody(i) ==
    /\ inv[i].pc = "rewrite"
    /\ inv[i].idx > Len(handler.rewrites)
    /\ inv' = [inv EXCEPT ![i] =
                  CallNext(inv[i], SetBody(inv[i].req, bodyStr[Buf(i)]),
                           "rewritten")]
    /\ UNCHANGED <<config, built, handler, err, host, bodyStr>>

\* the steps of one invocation
ServeHTTP(i) ==
    \/ Receive(i)
    \/ CheckMethod(i)
    \/ CheckNilBody(i)
    \/ ReadBodyOk(i)
    \/ ReadBodyErr(i)
    \/ ApplyRewrite(i)
    \/ ReplaceBody(i)

Next ==
    \/ Construct
    \/ \E i \in DOMAIN inv : Receive(i)
    \/ \E i \in DOMAIN inv : CheckMethod(i)
    \/ \E i \in DOMAIN inv : CheckNilBody(i)
    \/ \E i \in DOMAIN inv : ReadBodyOk(i)
    \/ \E i \in DOMAIN inv : ReadBodyErr(i)
    \/ \E i \in DOMAIN inv : ApplyRewrite(i)
    \/ \E i \in DOMAIN inv : ReplaceBody(i)

\* one request at a time, any documented configuration
Spec == Init /\ [][Next]_vars

\* several requests in flight on one instance
SpecConc == InitConc /\ [][Next]_vars

\* ServeHTTP run from its first statement to its return with nothing else
\* running: the request handed to next.  readErr and k are ReadBody's outcome
RECURSIVE RunRewrites(_, _)
RunRewrites(rewrites, text) ==
    IF rewrites = <<>> THEN text
    ELSE RunRewrites(Tail(rewrites),
             ReplaceAllString(Head(rewrites).regex, text,
                              Head(rewrites).replacement))

ServeAlone(p, req, readErr, k) ==
    IF p.methods # {} /\ req.Method \notin p.methods THEN req
    ELSE IF req.BodyNil THEN req
    ELSE IF readErr THEN [req EXCEPT !.Body.pos = k]
    ELSE SetBody(req, RunRewrites(p.rewrites, req.Body.data))

(***************************************************************************)
(* Properties.                                                             *)
(***************************************************************************)
Ids == DOMAIN inv

Done(i) == inv[i].pc = "done"

\* the body was read and the loop over the rules has run
Rewritten(i) == Done(i) /\ inv[i].ret = "rewritten"

RuleIds == 1..Len(config.rewrites)

\* the substitutions of the rules whose filters pass, folded left to right
RECURSIVE FoldApplicable(_, _, _)
FoldApplicable(rules, req, text) ==
    IF rules = <<>> THEN text
    ELSE FoldApplicable(Tail(rules), req,
             IF Applies(Head(rules), req)
             THEN ReplaceAllString(Head(rules).regex, text,
                                   Head(rules).replacement)
             ELSE text)

\* C1: for a request whose body was read, a rule's substitution is applied
\* if and only if its method, content-type and path filters all pass; an
\* earlier rule never keeps a later one from being evaluated.
C1_AppliedIffFiltersPass ==
    \A i \in Ids :
        Rewritten(i) =>
            \A k \in RuleIds :
                (k \in inv[i].applied) <=> Applies(config.rewrites[k], inv[i].orig)

\* C2: a rule whose non-empty method set (upper-cased at construction) does
\* not hold the request method as transmitted does not alter the body.
C2_MethodExcludedRuleKeepsBody ==
    \A i \in Ids :
        Done(i) =>
            \A k \in RuleIds :
                (/\ methodsSet(config.rewrites[k]) # {}
                 /\ inv[i].orig.Method \notin methodsSet(config.rewrites[k]))
                    => k \notin inv[i].altered

\* C3: a rule with a non-empty content-type set (its other filters passing)
\* is applied exactly when the request's Content-Type, cut at the first ";",
\* trimmed and lower-cased, is one of the rule's normalised entries; no
\* header counts as the empty string.
C3_ContentTypeDecides ==
    \A i \in Ids :
        Rewritten(i) =>
            \A k \in RuleIds :
                (/\ ctSet(config.rewrites[k]) # {}
                 /\ MethodFilter(config.rewrites[k], inv[i].orig)
                 /\ PathFilter(config.rewrites[k], inv[i].orig))
                    => ((k \in inv[i].applied) <=>
                        media(inv[i].orig.ContentType) \in ctSet(config.rewrites[k]))

\* C4: the forwarded body is the left-to-right fold of the applicable rules'
\* substitutions over the original body.
C4_BodyIsFoldOfApplicable ==
    \A i \in Ids :
        Rewritten(i) =>
            inv[i].seen.Body.data =
                FoldApplicable(config.rewrites, inv[i].orig, inv[i].orig.Body.data)

\* C5: after a successful read and the run of the rules, the request handed
\* to next has ContentLength and the Content-Length header equal to the byte
\* length of the body it carries, and that body is unread.
C5_LengthSynchronized ==
    \A i \in Ids :
        Rewritten(i) =>
            /\ inv[i].seen.ContentLength = Len(inv[i].seen.Body.data)
            /\ ParseLength(inv[i].seen.ContentLengthHeader) = Len(inv[i].seen.Body.data)
            /\ inv[i].seen.Body.pos = 0
            /\ inv[i].seen.Body.data = bodyStr[i]

\* C5 witness: a rewrite that changed the length of the body was forwarded
C5_Witness ==
    \E i \in Ids :
        /\ Rewritten(i)
        /\ Len(inv[i].seen.Body.data) # Len(inv[i].orig.Body.data)

\* C6: New fails, with no instance, when the body pattern or the path pattern
\* of any rule does not compile; otherwise the instance's compiled rules are
\* the configured rules, same count and order.
C6_ConstructionAtomic ==
    built =>
        IF \E k \in RuleIds :
               \/ ~Compiles(config.rewrites[k].regex)
               \/ /\ config.rewrites[k].pathRegex # <<>>
                  /\ ~Compiles(config.rewrites[k].pathRegex)
        THEN err /\ handler.nil
        ELSE /\ ~err /\ ~handler.nil
             /\ Len(handler.rewrites) = Len(config.rewrites)
             /\ \A k \in RuleIds :
                    /\ handler.rewrites[k].regex = config.rewrites[k].regex
                    /\ handler.rewrites[k].replacement = config.rewrites[k].replacement

\* C7: when the body read fails no rule is applied, the middleware writes no
\* response, and next gets the request once with the original body stream
\* (read as far as the failed read got) and the original lengths and headers.
C7_FailOpenOnReadError ==
    \A i \in Ids :
        (Done(i) /\ inv[i].readErr) =>
            /\ inv[i].applied = {}
            /\ inv[i].wrote = 0
            /\ inv[i].forwards = 1
            /\ inv[i].seen = [inv[i].orig EXCEPT !.Body.pos = inv[i].seen.Body.pos]

\* C7 witness: a read failed on a body that the first rewrite would change
C7_Witness ==
    \E i \in Ids :
        /\ Done(i) /\ inv[i].readErr
        /\ handler.rewrites # <<>>
        /\ RunRewrites(handler.rewrites, inv[i].orig.Body.data) # inv[i].orig.Body.data

\* C8: when no rule is applicable to the request (none configured, or each
\* excluded by one of its filters) next gets the original body bytes.
C8_NoApplicableRuleKeepsBody ==
    \A i \in Ids :
        (/\ Done(i)
         /\ \A k \in RuleIds : ~Applies(config.rewrites[k], inv[i].orig))
            => /\ inv[i].seen.BodyNil = inv[i].orig.BodyNil
               /\ inv[i].seen.Body.data = inv[i].orig.Body.data

\* C9: an invocation calls next exactly once, and only as it returns, on the
\* method-excluded, nil-body, read-failure and rewrite paths; it is never
\* stuck before returning; on the nil-body path next gets the request as it
\* came and no rule was evaluated.
C9_ForwardedExactlyOnce ==
    \A i \in Ids :
        /\ Done(i) => inv[i].forwards = 1
        /\ ~Done(i) => inv[i].forwards = 0
        /\ Done(i) => inv[i].ret \in {"method", "nil", "readerr", "rewritten"}
        /\ inv[i].pc \notin {"idle", "done"} => ENABLED ServeHTTP(i)
        /\ (Done(i) /\ inv[i].ret = "nil") =>
               /\ inv[i].seen = inv[i].orig
               /\ inv[i].applied = {}

\* C9 witness: a request without a body went through an instance with rules
C9_Witness ==
    \E i \in Ids :
        /\ Done(i) /\ inv[i].ret = "nil"
        /\ inv[i].orig.BodyNil
        /\ handler.rewrites # <<>>

\* C10: with several invocations interleaved on one instance, the instance
\* stays what New returned, and each invocation hands next the request it
\* would hand over if it ran alone.
C10_NoInterference ==
    /\ built => (handler = New(config).handler /\ err = New(config).err)
    /\ \A i \in Ids :
           Done(i) =>
               inv[i].seen = ServeAlone(handler, inv[i].orig, inv[i].readErr,
                                        inv[i].seen.Body.pos)

\* C10 witness: two invocations with different bodies ran rewrites while the
\* other was inside its loop, and both have returned with rewritten bodies
C10_Witness ==
    \E i, j \in Ids :
        /\ i # j
        /\ Rewritten(i) /\ Rewritten(j)
        /\ inv[i].together /\ inv[j].together
        /\ inv[i].orig.Body.data # inv[j].orig.Body.data
        /\ inv[i].altered # {} /\ inv[j].altered # {}

=============================================================================
